---- MODULE Spec2Model ----
(***************************************************************************)
(* Request routing and authentication orchestration of the authentication *)
(* portal: AuthPortal.ServeHTTP and GetRequestID of plugin.go, with the    *)
(* process-wide sessionCache they write to.                                *)
(*                                                                         *)
(* One request is handled by one worker.  A worker walks through the       *)
(* sections of ServeHTTP in program order: Authorize (token validation),   *)
(* QueryParams (redirect_url pre-processing), Route (the routing switch),  *)
(* DelegatedAuthenticate / LoginAuthenticate (one backend.Authenticate     *)
(* call each) and Finish (the handler has returned).  The per-request      *)
(* context opts is local to the worker; sessionCache is shared.            *)
(***************************************************************************)
EXTENDS Integers, Sequences, FiniteSets, TLC

(***************************************************************************)
(* Bounds of the model.                                                    *)
(***************************************************************************)
\* Requests received over a whole behaviour.
MaxRequests == 2
\* Requests that may be in flight at the same time under SpecConc.
NumWorkers == 2

Workers == 1..NumWorkers

(***************************************************************************)
(* Strings, as the Go standard library treats them.                        *)
(***************************************************************************)
\* strings.HasPrefix
HasPrefix(s, prefix) ==
    /\ Len(s) >= Len(prefix)
    /\ SubSeq(s, 1, Len(prefix)) = prefix

\* strings.TrimPrefix
TrimPrefix(s, prefix) ==
    IF HasPrefix(s, prefix) THEN SubSeq(s, Len(prefix) + 1, Len(s)) ELSE s

\* Position of the first "/" of s at or after position i, 0 when there is none.
RECURSIVE IndexSlash(_, _)
IndexSlash(s, i) ==
    IF i > Len(s) THEN 0
    ELSE IF SubSeq(s, i, i) = "/" THEN i
    ELSE IndexSlash(s, i + 1)

\* strings.Split(s, "/"): always at least one element, "" included.
RECURSIVE Split(_)
Split(s) ==
    LET k == IndexSlash(s, 1) IN
    IF k = 0 THEN <<s>>
    ELSE <<SubSeq(s, 1, k - 1)>> \o Split(SubSeq(s, k + 1, Len(s)))

(***************************************************************************)
(* Configuration of the portal instance (immutable after provisioning).    *)
(***************************************************************************)
redirectToToken == "AUTH_PORTAL_REDIRECT_URL"

AuthURLPath == "/auth"

\* m.Cookies.GetAttributes(): an operator-configured attribute string.
CookieAttributes == " Path=/; Secure; HttpOnly"

\* m.Backends, in configuration order.  Two backends share the realm "corp";
\* the pair (oauth2, google) is configured twice (nothing in ServeHTTP
\* relies on the pair being unique).
Backends ==
    << [name |-> "local_backend",  method |-> "local",  realm |-> "corp"],
       [name |-> "ldap_backend",   method |-> "ldap",   realm |-> "corp"],
       [name |-> "google_backend", method |-> "oauth2", realm |-> "google"],
       [name |-> "google_alt",     method |-> "oauth2", realm |-> "google"] >>

\* m.UserRegistration
UserRegistration == [Disabled |-> FALSE, Dropbox |-> "/var/lib/dropbox"]

(***************************************************************************)
(* Values of the collaborators' interfaces.                                *)
(***************************************************************************)
\* Go's nil, for a string-valued or error-valued slot that is absent.
Nil == "<nil>"

\* Absence of a *jwt.UserClaims.
NoClaims == [ID |-> Nil, Subject |-> Nil]

\* m.TokenValidator.Authorize(r, nil) -> (claims, authOK, err)
TokenResults ==
    { [authOK |-> TRUE,  err |-> Nil,
       claims |-> [ID |-> "token-jti", Subject |-> "alice"]],
      [authOK |-> FALSE, err |-> "[Token is expired]",   claims |-> NoClaims],
      [authOK |-> FALSE, err |-> "no token found",       claims |-> NoClaims],
      [authOK |-> FALSE, err |-> "signature is invalid", claims |-> NoClaims],
      [authOK |-> FALSE, err |-> Nil,                    claims |-> NoClaims] }

\* utils.ParseCredentials(r) -> (credentials, err); credentials may be nil.
CredentialResults ==
    { [err |-> TRUE,  found |-> FALSE, realm |-> Nil],
      [err |-> FALSE, found |-> FALSE, realm |-> Nil],
      [err |-> FALSE, found |-> TRUE,  realm |-> "corp"],
      [err |-> FALSE, found |-> TRUE,  realm |-> "google"],
      [err |-> FALSE, found |-> TRUE,  realm |-> "partners"] }

\* ParseCredentials has not been called (yet) for the request.
Unparsed == [err |-> FALSE, found |-> FALSE, realm |-> "<unparsed>"]

\* Claims a backend may assert: with or without an identifier of its own.
BackendClaims ==
    { [ID |-> "",       Subject |-> "alice"],
      [ID |-> "bob-id", Subject |-> "bob"] }

\* backend.Authenticate(opts) -> (resp, err).  resp is a map: a key is
\* present exactly when it is in the DOMAIN of the record.
BackendResults ==
    { [err |-> TRUE,  resp |-> [code |-> 401]],
      [err |-> TRUE,  resp |-> [message |-> "backend unreachable"]],
      [err |-> FALSE, resp |-> [code |-> 302, redirect_url |-> "https://idp.example/sso"]],
      [err |-> FALSE, resp |-> [code |-> 401]],
      [err |-> FALSE, resp |-> [message |-> "empty"]] }
    \cup { [err |-> FALSE, resp |-> [code |-> 200, claims |-> c]] : c \in BackendClaims }

HasKey(resp, key) == key \in DOMAIN resp

\* r.URL.Path of the requests the portal is mounted for.
Paths ==
    { "/auth", "/auth/login", "/auth/register", "/auth/recover", "/auth/forgot",
      "/auth/logout", "/auth/logoff", "/auth/assets/style.css", "/auth/whoami",
      "/auth/settings", "/auth/portal", "/auth/saml", "/auth/x509", "/auth/oauth2",
      "/auth/oauth2/google", "/auth/oauth2/github", "/auth/saml/corp",
      "/auth/missing" }

Methods == {"GET", "POST"}

\* r.URL.Query()["redirect_url"]: Nil when the parameter is absent, else its
\* first value.
RedirectParams == {Nil, "/app"}

(***************************************************************************)
(* Pure parts of ServeHTTP and GetRequestID.                               *)
(***************************************************************************)
\* uuid.NewV4().String() of the n-th request: fresh, never empty.
NewV4(n) == "uuid-" \o ToString(n)

\* GetRequestID: the request_id variable of the request's context when an
\* upstream handler has set it, a fresh uuid otherwise.
GetRequestID(rawRequestID, n) ==
    IF rawRequestID = Nil THEN NewV4(n) ELSE rawRequestID

\* The request_id variable as the host hands it over for the n-th request.
RawRequestIDs(n) == {Nil, "req-" \o ToString(n)}

\* opts as built at the top of ServeHTTP (the references to shared
\* collaborators are left out: they are the same for every request).
NewOpts(reqID) ==
    [ request_id             |-> reqID,
      authenticated          |-> FALSE,
      auth_backend_found     |-> FALSE,
      auth_credentials_found |-> FALSE,
      authorized             |-> FALSE,
      flow                   |-> "",
      status_code            |-> 0,
      message                |-> "",
      user_claims            |-> NoClaims ]

\* urlPath: the request path without the mount path and the leading "/".
URLPath(path) == TrimPrefix(TrimPrefix(path, AuthURLPath), "/")

\* AuthorizeOpts failing open: a validation error other than "expired" and
\* "no token" is taken for a valid token.
AuthorizeOpts_FailOpen(o, tok) ==
    IF tok.authOK \/ (tok.err \notin {Nil, "[Token is expired]", "no token found"})
    THEN [o EXCEPT !.authenticated = TRUE, !.user_claims = tok.claims]
    ELSE o

\* The outcome of token validation on opts.
AuthorizeOpts(o, tok) ==
    IF tok.authOK
    THEN [o EXCEPT !.authenticated = TRUE, !.user_claims = tok.claims]
    ELSE o

\* TokenExpired comparing with the message without its brackets.
TokenExpired_Unbracketed(tok) ==
    /\ ~tok.authOK
    /\ tok.err # Nil
    /\ tok.err = "Token is expired"

\* The validation error that sends the request to the login redirect.
TokenExpired(tok) ==
    /\ ~tok.authOK
    /\ tok.err # Nil
    /\ tok.err = "[Token is expired]"

\* The validation errors that are logged at warning level.
TokenWarned(tok) ==
    /\ ~tok.authOK
    /\ tok.err # Nil
    /\ tok.err \notin {"[Token is expired]", "no token found"}

\* The paths handed to the delegated-backend flow.
IsDelegatedPath(urlPath) ==
    \/ HasPrefix(urlPath, "saml")
    \/ HasPrefix(urlPath, "x509")
    \/ HasPrefix(urlPath, "oauth2")

\* The Set-Cookie header written for a redirect_url query parameter.
RedirectCookie(redirectURL) ==
    "Set-Cookie: " \o redirectToToken \o "=" \o redirectURL \o ";" \o CookieAttributes

\* A GET request carries the redirect_url query parameter.
FoundQueryOptions(method, redirectURL) ==
    method = "GET" /\ redirectURL # Nil

\* QueryRedirects looking at the redirect_url of any method but with the
\* path test inverted.
QueryRedirects_OnDelegated(method, redirectURL, urlPath) ==
    /\ FoundQueryOptions(method, redirectURL)
    /\ IsDelegatedPath(urlPath)

\* The query-parameter pre-processing answers the request itself with a 302.
QueryRedirects(method, redirectURL, urlPath) ==
    /\ FoundQueryOptions(method, redirectURL)
    /\ ~IsDelegatedPath(urlPath)

\* RouteCase without the empty remainder in its login case.
RouteCase_NoEmptyPath(urlPath) ==
    IF HasPrefix(urlPath, "register") THEN "register"
    ELSE IF HasPrefix(urlPath, "recover") \/ HasPrefix(urlPath, "forgot") THEN "recover"
    ELSE IF HasPrefix(urlPath, "logout") \/ HasPrefix(urlPath, "logoff") THEN "logout"
    ELSE IF HasPrefix(urlPath, "assets") THEN "assets"
    ELSE IF HasPrefix(urlPath, "whoami") THEN "whoami"
    ELSE IF HasPrefix(urlPath, "settings") THEN "settings"
    ELSE IF HasPrefix(urlPath, "portal") THEN "portal"
    ELSE IF IsDelegatedPath(urlPath) THEN "delegated"
    ELSE IF HasPrefix(urlPath, "login") THEN "login"
    ELSE "not_found"

\* The routing switch: its cases in order, the first that matches wins.
RouteCase(urlPath) ==
    IF HasPrefix(urlPath, "register") THEN "register"
    ELSE IF HasPrefix(urlPath, "recover") \/ HasPrefix(urlPath, "forgot") THEN "recover"
    ELSE IF HasPrefix(urlPath, "logout") \/ HasPrefix(urlPath, "logoff") THEN "logout"
    ELSE IF HasPrefix(urlPath, "assets") THEN "assets"
    ELSE IF HasPrefix(urlPath, "whoami") THEN "whoami"
    ELSE IF HasPrefix(urlPath, "settings") THEN "settings"
    ELSE IF HasPrefix(urlPath, "portal") THEN "portal"
    ELSE IF IsDelegatedPath(urlPath) THEN "delegated"
    ELSE IF HasPrefix(urlPath, "login") \/ urlPath = "" THEN "login"
    ELSE "not_found"

\* The flow and the renderer of the static and administrative cases.
StaticFlow(case) ==
    CASE case = "register" ->
           IF UserRegistration.Disabled \/ UserRegistration.Dropbox = ""
           THEN [flow |-> "unsupported_feature", renderer |-> "ServeGeneric"]
           ELSE [flow |-> "register", renderer |-> "ServeRegister"]
      [] case = "recover"  -> [flow |-> "unsupported_feature", renderer |-> "ServeGeneric"]
      [] case = "logout"   -> [flow |-> "logout",   renderer |-> "ServeSessionLogoff"]
      [] case = "assets"   -> [flow |-> "assets",   renderer |-> "ServeStaticAssets"]
      [] case = "whoami"   -> [flow |-> "whoami",   renderer |-> "ServeWhoami"]
      [] case = "settings" -> [flow |-> "settings", renderer |-> "ServeSettings"]
      [] case = "portal"   -> [flow |-> "portal",   renderer |-> "ServePortal"]

StaticCases == {"register", "recover", "logout", "assets", "whoami", "settings", "portal"}

\* The delegated-backend path is too short to name a method and a realm.
MalformedBackend(urlPathParts) == Len(urlPathParts) < 2

\* MalformedBackendOpts without the reset of authenticated.
MalformedBackendOpts_KeepsAuthenticated(o) ==
    [o EXCEPT !.status_code = 400, !.flow = "malformed_backend"]

\* The context of a delegated-backend path that is too short.
MalformedBackendOpts(o) ==
    [o EXCEPT !.status_code = 400, !.flow = "malformed_backend",
              !.authenticated = FALSE]

\* The context when the delegated-backend loop has matched no backend.
BackendNotFoundOpts(o) ==
    [o EXCEPT !.status_code = 400, !.flow = "backend_not_found",
              !.authenticated = FALSE]

\* DelegatedMatch comparing the realm only: the first backend of the
\* requested realm is taken, whatever its method.
RECURSIVE DelegatedMatch_RealmOnly(_, _, _)
DelegatedMatch_RealmOnly(reqBackendMethod, reqBackendRealm, i) ==
    IF i > Len(Backends) THEN 0
    ELSE IF Backends[i].realm # reqBackendRealm THEN
        DelegatedMatch_RealmOnly(reqBackendMethod, reqBackendRealm, i + 1)
    ELSE i

\* DelegatedMatch going on after a match: the last backend with the
\* requested method and realm is taken.
RECURSIVE DelegatedMatch_LastMatch(_, _, _)
DelegatedMatch_LastMatch(reqBackendMethod, reqBackendRealm, i) ==
    IF i > Len(Backends) THEN 0
    ELSE LET later == DelegatedMatch_LastMatch(reqBackendMethod, reqBackendRealm, i + 1) IN
         IF later # 0 THEN later
         ELSE IF Backends[i].realm = reqBackendRealm
                   /\ Backends[i].method = reqBackendMethod THEN i
         ELSE 0

\* The backend the delegated-backend loop stops at: the first, in
\* configuration order, whose realm and method are the requested ones; 0
\* when the loop runs to its end.
RECURSIVE DelegatedMatch(_, _, _)
DelegatedMatch(reqBackendMethod, reqBackendRealm, i) ==
    IF i > Len(Backends) THEN 0
    ELSE IF Backends[i].realm # reqBackendRealm THEN
        DelegatedMatch(reqBackendMethod, reqBackendRealm, i + 1)
    ELSE IF Backends[i].method # reqBackendMethod THEN
        DelegatedMatch(reqBackendMethod, reqBackendRealm, i + 1)
    ELSE i

\* LoginMatch starting over: the first backend of the realm is returned
\* wherever the loop stands, so a backend is asked again.
LoginMatch_FromStart(realm, i) ==
    IF i > Len(Backends) + 1 \/ \A j \in 1..Len(Backends) : Backends[j].realm # realm
    THEN 0
    ELSE CHOOSE j \in 1..Len(Backends) :
             /\ Backends[j].realm = realm
             /\ \A k \in 1..(j - 1) : Backends[k].realm # realm

\* LoginMatch with a fallback: credentials of a realm no backend has are
\* handed to the first backend configured.
RECURSIVE LoginMatch_DefaultBackend(_, _)
LoginMatch_DefaultBackend(realm, i) ==
    IF i > Len(Backends)
    THEN (IF \A j \in 1..Len(Backends) : Backends[j].realm # realm
             /\ i = Len(Backends) + 1
          THEN 1 ELSE 0)
    ELSE IF Backends[i].realm # realm THEN LoginMatch_DefaultBackend(realm, i + 1)
    ELSE i

\* The next backend, from position i on, the login loop does not skip: the
\* first whose realm is the credentials' realm; 0 when the loop is over.
RECURSIVE LoginMatch(_, _)
LoginMatch(realm, i) ==
    IF i > Len(Backends) THEN 0
    ELSE IF Backends[i].realm # realm THEN LoginMatch(realm, i + 1)
    ELSE i

\* SessionID keyed by the request: the correlation identifier is used
\* whether or not the backend returned an identifier.
SessionID_AlwaysRequestID(claims, reqID) == reqID

\* SessionID without the default: the backend's claims.ID is the key as it
\* comes.
SessionID_NoDefault(claims, reqID) == claims.ID

\* The key of the session cache entry: the backend's claims.ID, the
\* request's correlation identifier when that is empty.
SessionID(claims, reqID) ==
    IF claims.ID = "" THEN reqID ELSE claims.ID

\* The claims after stamping: the identifier defaulted (Issuer and Address
\* are stamped from the request and read by no part of ServeHTTP).
StampClaims(claims, reqID) ==
    [claims EXCEPT !.ID = SessionID(claims, reqID)]

\* SessionData with the backend's method stored as its name.
SessionData_MethodAsName(claims, backend) ==
    [ claims         |-> claims,
      backend_name   |-> backend.method,
      backend_realm  |-> backend.realm,
      backend_method |-> backend.method ]

\* The value stored in the session cache for claims produced by a backend.
SessionData(claims, backend) ==
    [ claims         |-> claims,
      backend_name   |-> backend.name,
      backend_realm  |-> backend.realm,
      backend_method |-> backend.method ]

\* cache.SessionCache.Add: one entry per session id, a later Add for the
\* same id replaces the earlier entry.
Add(cache, sessionID, data) ==
    { e \in cache : e.id # sessionID }
        \cup { [ id             |-> sessionID,
                 claims         |-> data.claims,
                 backend_name   |-> data.backend_name,
                 backend_realm  |-> data.backend_realm,
                 backend_method |-> data.backend_method ] }

\* DelegatedResult with an error branch that leaves the flow as it is.
DelegatedResult_KeepsFlow(o, res, backend, reqID, cache) ==
    IF res.err THEN
        IF ~HasKey(res.resp, "code")
        THEN [ opts    |-> [o EXCEPT !.authenticated = FALSE,
                                     !.message = "Authentication failed"],
               cache   |-> cache, headers |-> <<>>, outcome |-> "panic" ]
        ELSE [ opts    |-> [o EXCEPT !.authenticated = FALSE,
                                     !.message = "Authentication failed",
                                     !.status_code = res.resp.code],
               cache   |-> cache, headers |-> <<>>, outcome |-> "ServeGeneric" ]
    ELSE IF HasKey(res.resp, "redirect_url") THEN
        [ opts    |-> o, cache |-> cache,
          headers |-> <<"Location: " \o res.resp.redirect_url, "WriteHeader 308">>,
          outcome |-> "Redirect308" ]
    ELSE IF ~HasKey(res.resp, "claims") THEN
        [ opts    |-> [o EXCEPT !.authenticated = FALSE,
                                !.message = "Authentication failed"],
          cache   |-> cache, headers |-> <<>>, outcome |-> "panic" ]
    ELSE
        LET claims == StampClaims(res.resp.claims, reqID) IN
        [ opts    |-> [o EXCEPT !.authenticated = TRUE, !.user_claims = claims,
                                !.status_code = 200],
          cache   |-> Add(cache, claims.ID, SessionData(claims, backend)),
          headers |-> <<>>, outcome |-> "ServeLogin" ]

\* DelegatedResult opening a session before the bounce: the redirect_url
\* branch stores an entry under the correlation identifier.
DelegatedResult_SessionOnRedirect(o, res, backend, reqID, cache) ==
    IF res.err THEN
        IF ~HasKey(res.resp, "code")
        THEN [ opts    |-> [o EXCEPT !.flow = "auth_failed", !.authenticated = FALSE,
                                     !.message = "Authentication failed"],
               cache   |-> cache, headers |-> <<>>, outcome |-> "panic" ]
        ELSE [ opts    |-> [o EXCEPT !.flow = "auth_failed", !.authenticated = FALSE,
                                     !.message = "Authentication failed",
                                     !.status_code = res.resp.code],
               cache   |-> cache, headers |-> <<>>, outcome |-> "ServeGeneric" ]
    ELSE IF HasKey(res.resp, "redirect_url") THEN
        [ opts    |-> o,
          cache   |-> Add(cache, reqID,
                          SessionData([ID |-> reqID, Subject |-> Nil], backend)),
          headers |-> <<"Location: " \o res.resp.redirect_url, "WriteHeader 308">>,
          outcome |-> "Redirect308" ]
    ELSE IF ~HasKey(res.resp, "claims") THEN
        [ opts    |-> [o EXCEPT !.flow = "auth_failed", !.authenticated = FALSE,
                                !.message = "Authentication failed"],
          cache   |-> cache, headers |-> <<>>, outcome |-> "panic" ]
    ELSE
        LET claims == StampClaims(res.resp.claims, reqID) IN
        [ opts    |-> [o EXCEPT !.authenticated = TRUE, !.user_claims = claims,
                                !.status_code = 200],
          cache   |-> Add(cache, claims.ID, SessionData(claims, backend)),
          headers |-> <<>>, outcome |-> "ServeLogin" ]

\* What the delegated-backend flow makes of the matched backend's answer:
\* the context, the session cache, the response headers written and the
\* way the handler ends ("panic": a failed type assertion or a nil error
\* dereference aborts the handler).
DelegatedResult(o, res, backend, reqID, cache) ==
    IF res.err THEN
        IF ~HasKey(res.resp, "code")
        THEN [ opts    |-> [o EXCEPT !.flow = "auth_failed", !.authenticated = FALSE,
                                     !.message = "Authentication failed"],
               cache   |-> cache, headers |-> <<>>, outcome |-> "panic" ]
        ELSE [ opts    |-> [o EXCEPT !.flow = "auth_failed", !.authenticated = FALSE,
                                     !.message = "Authentication failed",
                                     !.status_code = res.resp.code],
               cache   |-> cache, headers |-> <<>>, outcome |-> "ServeGeneric" ]
    ELSE IF HasKey(res.resp, "redirect_url") THEN
        [ opts    |-> o, cache |-> cache,
          headers |-> <<"Location: " \o res.resp.redirect_url, "WriteHeader 308">>,
          outcome |-> "Redirect308" ]
    ELSE IF ~HasKey(res.resp, "claims") THEN
        \* resp["code"].(int) at line 246, then err.Error() on a nil err at
        \* line 251: the branch never reaches its ServeGeneric.
        [ opts    |-> IF HasKey(res.resp, "code")
                      THEN [o EXCEPT !.flow = "auth_failed", !.authenticated = FALSE,
                                     !.message = "Authentication failed",
                                     !.status_code = res.resp.code]
                      ELSE [o EXCEPT !.flow = "auth_failed", !.authenticated = FALSE,
                                     !.message = "Authentication failed"],
          cache   |-> cache, headers |-> <<>>, outcome |-> "panic" ]
    ELSE
        LET claims == StampClaims(res.resp.claims, reqID) IN
        [ opts    |-> [o EXCEPT !.authenticated = TRUE, !.user_claims = claims,
                                !.status_code = 200],
          cache   |-> Add(cache, claims.ID, SessionData(claims, backend)),
          headers |-> <<>>, outcome |-> "ServeLogin" ]

\* LoginResult with the failure branch resetting authenticated, as the
\* delegated-backend flow does.
LoginResult_ResetOnFailure(o, res, backend, reqID, cache) ==
    IF res.err THEN
        IF ~HasKey(res.resp, "code")
        THEN [ opts  |-> [o EXCEPT !.message = "Authentication failed",
                                   !.authenticated = FALSE],
               cache |-> cache, panic |-> TRUE ]
        ELSE [ opts  |-> [o EXCEPT !.message = "Authentication failed",
                                   !.authenticated = FALSE,
                                   !.status_code = res.resp.code],
               cache |-> cache, panic |-> FALSE ]
    ELSE IF ~HasKey(res.resp, "claims") THEN
        [ opts |-> o, cache |-> cache, panic |-> TRUE ]
    ELSE
        LET claims == StampClaims(res.resp.claims, reqID) IN
        [ opts  |-> [o EXCEPT !.user_claims = claims, !.authenticated = TRUE,
                              !.status_code = 200],
          cache |-> Add(cache, claims.ID, SessionData(claims, backend)),
          panic |-> FALSE ]

\* What one iteration of the login loop makes of a realm-matching backend's
\* answer: the context, the session cache and whether the handler aborted.
LoginResult(o, res, backend, reqID, cache) ==
    IF res.err THEN
        IF ~HasKey(res.resp, "code")
        THEN [ opts  |-> [o EXCEPT !.message = "Authentication failed"],
               cache |-> cache, panic |-> TRUE ]
        ELSE [ opts  |-> [o EXCEPT !.message = "Authentication failed",
                                   !.status_code = res.resp.code],
               cache |-> cache, panic |-> FALSE ]
    ELSE IF ~HasKey(res.resp, "claims") THEN
        [ opts |-> o, cache |-> cache, panic |-> TRUE ]
    ELSE
        LET claims == StampClaims(res.resp.claims, reqID) IN
        [ opts  |-> [o EXCEPT !.user_claims = claims, !.authenticated = TRUE,
                              !.status_code = 200],
          cache |-> Add(cache, claims.ID, SessionData(claims, backend)),
          panic |-> FALSE ]

\* The record kept of one backend.Authenticate call of a request.
Call(i, res) ==
    [ backend  |-> i,
      res      |-> res,
      err      |-> res.err,
      redirect |-> HasKey(res.resp, "redirect_url"),
      claims   |-> HasKey(res.resp, "claims"),
      id       |-> IF HasKey(res.resp, "claims") THEN res.resp.claims.ID ELSE Nil,
      subject  |-> IF HasKey(res.resp, "claims") THEN res.resp.claims.Subject ELSE Nil,
      hasCode  |-> HasKey(res.resp, "code"),
      code     |-> IF HasKey(res.resp, "code") THEN res.resp.code ELSE 0 ]

(***************************************************************************)
(* State.                                                                  *)
(***************************************************************************)
VARIABLES
    serving,       \* the workers the host hands requests to
    nreq,          \* requests received so far
    sessionCache,  \* the process-wide session cache: a set of entries
    pc,            \* per worker: the section of ServeHTTP it is at
    req,           \* per worker: the request, the token validation result
                   \*   and the parsed credentials
    opts,          \* per worker: the request context
    idx,           \* per worker: the backend the loop is about to call
    calls,         \* per worker: the Authenticate calls made, in order
    wr,            \* per worker: what was written to the ResponseWriter
    trail,         \* per worker: the sections of ServeHTTP entered, in order
    outcome        \* per worker: how the handler ended

vars == << serving, nreq, sessionCache, pc, req, opts, idx, calls, wr, trail, outcome >>

NoRequest ==
    [ path |-> Nil, method |-> Nil, redirect_url |-> Nil, raw_request_id |-> Nil,
      token |-> [authOK |-> FALSE, err |-> Nil, claims |-> NoClaims],
      credentials |-> Unparsed ]

TypeOK ==
    /\ serving \subseteq Workers
    /\ nreq \in 0..MaxRequests
    /\ \A w \in Workers :
         /\ pc[w] \in {"idle", "query", "route", "delegated", "login", "done"}
         /\ idx[w] \in 0..Len(Backends)
         /\ opts[w].authenticated \in BOOLEAN

IdleWorkers ==
    /\ nreq = 0
    /\ sessionCache = {}
    /\ pc = [w \in Workers |-> "idle"]
    /\ req = [w \in Workers |-> NoRequest]
    /\ opts = [w \in Workers |-> NewOpts(Nil)]
    /\ idx = [w \in Workers |-> 0]
    /\ calls = [w \in Workers |-> <<>>]
    /\ wr = [w \in Workers |-> <<>>]
    /\ trail = [w \in Workers |-> <<>>]
    /\ outcome = [w \in Workers |-> Nil]

\* Requests are handled one at a time.
Init == serving = {1} /\ IdleWorkers

\* Up to NumWorkers requests are handled concurrently.
InitConc == serving = Workers /\ IdleWorkers

Concurrent == Cardinality(serving) > 1

\* The inputs requests are drawn from.  With concurrent requests the input
\* alphabet is cut down to one request of each kind; the requests of one
\* worker may carry a valid token, those of the others carry none.
PathsIn == IF Concurrent
           THEN {"/auth/login", "/auth/oauth2/google", "/auth/whoami", "/auth/missing"}
           ELSE Paths
MethodsIn == IF Concurrent THEN {"POST"} ELSE Methods
RedirectParamsIn == IF Concurrent THEN {Nil} ELSE RedirectParams
RawRequestIDsIn(n) == IF Concurrent THEN {Nil} ELSE RawRequestIDs(n)
TokenResultsIn(w) ==
    IF Concurrent
    THEN {t \in TokenResults : (w = 1 /\ t.authOK) \/ t.err = "no token found"}
    ELSE TokenResults
CredentialResultsIn == IF Concurrent
                       THEN {c \in CredentialResults : c.realm = "corp"}
                       ELSE CredentialResults
BackendResultsIn == IF Concurrent
                    THEN {r \in BackendResults :
                            HasKey(r.resp, "code") /\ ~HasKey(r.resp, "redirect_url")
                           }
                    ELSE BackendResults

\* The handler of worker w returns (or aborts): nothing of the request is
\* left to do.
Return(w, how) ==
    /\ pc' = [pc EXCEPT ![w] = "done"]
    /\ outcome' = [outcome EXCEPT ![w] = how]

\* No handler is at its return: Finish is taken before anything else moves,
\* so a handler's return is observed at the instant it happens.
NoneDone == \A v \in Workers : pc[v] # "done"

\* AlreadyAuthenticated without its check: the login flow processes the
\* credentials of every request.
AlreadyAuthenticated_Never(o) == FALSE

\* AlreadyAuthenticated on a context shared by the requests in flight: a
\* request counts as authenticated when any of them is.
AlreadyAuthenticated_AnyRequest(o) ==
    o.authenticated \/ \E v \in Workers : opts[v].authenticated

\* The login flow skips credential processing.
AlreadyAuthenticated(o) == o.authenticated

(***************************************************************************)
(* ServeHTTP, section by section.                                          *)
(***************************************************************************)
\* A request arrives: the context is built and the token is validated.  An
\* expired token ends the request with the login redirect at once.
Authorize(w) ==
    /\ NoneDone
    /\ w \in serving
    /\ pc[w] = "idle"
    /\ nreq < MaxRequests
    /\ \E path \in PathsIn, method \in MethodsIn, redirectURL \in RedirectParamsIn,
          raw \in RawRequestIDsIn(nreq + 1), tok \in TokenResultsIn(w) :
         LET reqID == GetRequestID(raw, nreq + 1) IN
         /\ nreq' = nreq + 1
         /\ req' = [req EXCEPT ![w] =
                      [ path |-> path, method |-> method, redirect_url |-> redirectURL,
                        raw_request_id |-> raw, token |-> tok,
                        credentials |-> Unparsed ]]
         /\ opts' = [opts EXCEPT ![w] = AuthorizeOpts(NewOpts(reqID), tok)]
         /\ trail' = [trail EXCEPT ![w] = <<"Authorize">>]
         /\ IF TokenExpired(tok)
            THEN Return(w, "ServeSessionLoginRedirect")
            ELSE /\ pc' = [pc EXCEPT ![w] = "query"]
                 /\ UNCHANGED outcome
    /\ UNCHANGED << serving, sessionCache, idx, calls, wr >>

\* Query-parameter pre-processing: a GET with redirect_url sets the
\* redirect cookie and, off the delegated-backend paths, is answered 302.
QueryParams(w) ==
    /\ NoneDone
    /\ pc[w] = "query"
    /\ LET r == req[w]
           urlPath == URLPath(r.path)
           cookie == IF FoundQueryOptions(r.method, r.redirect_url)
                     THEN <<RedirectCookie(r.redirect_url)>>
                     ELSE <<>>
       IN
       /\ trail' = [trail EXCEPT ![w] = Append(@, "QueryParams")]
       /\ IF QueryRedirects(r.method, r.redirect_url, urlPath)
          THEN /\ wr' = [wr EXCEPT ![w] =
                           @ \o cookie \o <<"Location: " \o AuthURLPath, "WriteHeader 302">>]
               /\ Return(w, "Redirect302")
          ELSE /\ wr' = [wr EXCEPT ![w] = @ \o cookie]
               /\ pc' = [pc EXCEPT ![w] = "route"]
               /\ UNCHANGED outcome
    /\ UNCHANGED << serving, nreq, sessionCache, req, opts, idx, calls >>

\* The static and administrative cases of the routing switch.
RouteStatic(w) ==
    /\ NoneDone
    /\ pc[w] = "route"
    /\ LET case == RouteCase(URLPath(req[w].path)) IN
       /\ case \in StaticCases
       /\ opts' = [opts EXCEPT ![w].flow = StaticFlow(case).flow]
       /\ Return(w, StaticFlow(case).renderer)
    /\ trail' = [trail EXCEPT ![w] = Append(@, "Route")]
    /\ UNCHANGED << serving, nreq, sessionCache, req, idx, calls, wr >>

\* The default case of the routing switch.
RouteNotFound(w) ==
    /\ NoneDone
    /\ pc[w] = "route"
    /\ RouteCase(URLPath(req[w].path)) = "not_found"
    /\ opts' = [opts EXCEPT ![w].flow = "not_found"]
    /\ Return(w, "ServeGeneric")
    /\ trail' = [trail EXCEPT ![w] = Append(@, "Route")]
    /\ UNCHANGED << serving, nreq, sessionCache, req, idx, calls, wr >>

\* The delegated-backend case up to the Authenticate call: the path is
\* split, the backends are scanned for the requested (method, realm).
RouteDelegated(w) ==
    /\ NoneDone
    /\ pc[w] = "route"
    /\ LET urlPath == URLPath(req[w].path)
           urlPathParts == Split(urlPath)
       IN
       /\ RouteCase(urlPath) = "delegated"
       /\ IF MalformedBackend(urlPathParts)
          THEN /\ opts' = [opts EXCEPT ![w] = MalformedBackendOpts(@)]
               /\ Return(w, "ServeGeneric")
               /\ UNCHANGED idx
          ELSE LET reqBackendMethod == urlPathParts[1]
                   reqBackendRealm == urlPathParts[2]
                   i == DelegatedMatch(reqBackendMethod, reqBackendRealm, 1)
               IN
               IF i = 0
               THEN /\ opts' = [opts EXCEPT ![w] = BackendNotFoundOpts(@)]
                    /\ Return(w, "ServeGeneric")
                    /\ UNCHANGED idx
               ELSE /\ opts' = [opts EXCEPT ![w].flow = reqBackendMethod]
                    /\ idx' = [idx EXCEPT ![w] = i]
                    /\ pc' = [pc EXCEPT ![w] = "delegated"]
                    /\ UNCHANGED outcome
    /\ trail' = [trail EXCEPT ![w] = Append(@, "Route")]
    /\ UNCHANGED << serving, nreq, sessionCache, req, calls, wr >>

\* The matched backend of the delegated-backend flow answers.
DelegatedAuthenticate(w) ==
    /\ NoneDone
    /\ pc[w] = "delegated"
    /\ \E res \in BackendResultsIn :
         LET out == DelegatedResult(opts[w], res, Backends[idx[w]],
                                    opts[w].request_id, sessionCache)
         IN
         /\ calls' = [calls EXCEPT ![w] = Append(@, Call(idx[w], res))]
         /\ opts' = [opts EXCEPT ![w] = out.opts]
         /\ sessionCache' = out.cache
         /\ wr' = [wr EXCEPT ![w] = @ \o out.headers]
         /\ Return(w, out.outcome)
    /\ trail' = [trail EXCEPT ![w] = Append(@, "Authenticate")]
    /\ UNCHANGED << serving, nreq, req, idx >>

\* The login case up to the first Authenticate call: an authenticated
\* request is authorized; otherwise the credentials are parsed and the
\* loop over the backends starts.
RouteLogin(w) ==
    /\ NoneDone
    /\ pc[w] = "route"
    /\ RouteCase(URLPath(req[w].path)) = "login"
    /\ trail' = [trail EXCEPT ![w] = Append(@, "Route")]
    /\ IF AlreadyAuthenticated(opts[w])
       THEN /\ opts' = [opts EXCEPT ![w].flow = "login", ![w].authorized = TRUE]
            /\ Return(w, "ServeLogin")
            /\ UNCHANGED << req, idx >>
       ELSE \E cred \in CredentialResultsIn :
            /\ req' = [req EXCEPT ![w].credentials = cred]
            /\ IF cred.err
               THEN /\ opts' = [opts EXCEPT ![w].flow = "login",
                                            ![w].message = "Authentication failed",
                                            ![w].status_code = 400]
                    /\ Return(w, "ServeLogin")
                    /\ UNCHANGED idx
               ELSE IF ~cred.found
               THEN /\ opts' = [opts EXCEPT ![w].flow = "login"]
                    /\ Return(w, "ServeLogin")
                    /\ UNCHANGED idx
               ELSE LET i == LoginMatch(cred.realm, 1) IN
                    IF i = 0
                    THEN /\ opts' = [opts EXCEPT ![w].flow = "login",
                                                 ![w].auth_credentials_found = TRUE,
                                                 ![w].status_code = 500]
                         /\ Return(w, "ServeLogin")
                         /\ UNCHANGED idx
                    ELSE /\ opts' = [opts EXCEPT ![w].flow = "login",
                                                 ![w].auth_credentials_found = TRUE]
                         /\ idx' = [idx EXCEPT ![w] = i]
                         /\ pc' = [pc EXCEPT ![w] = "login"]
                         /\ UNCHANGED outcome
    /\ UNCHANGED << serving, nreq, sessionCache, calls, wr >>

\* One iteration of the login loop: a backend of the credentials' realm
\* answers; the loop goes on to the next such backend, and the login
\* renderer is called when there is none left.
LoginAuthenticate(w) ==
    /\ NoneDone
    /\ pc[w] = "login"
    /\ \E res \in BackendResultsIn :
         LET found == [opts[w] EXCEPT !.auth_backend_found = TRUE]
             out == LoginResult(found, res, Backends[idx[w]],
                                opts[w].request_id, sessionCache)
             next == LoginMatch(req[w].credentials.realm, idx[w] + 1)
         IN
         /\ calls' = [calls EXCEPT ![w] = Append(@, Call(idx[w], res))]
         /\ opts' = [opts EXCEPT ![w] = out.opts]
         /\ sessionCache' = out.cache
         /\ IF out.panic
            THEN Return(w, "panic") /\ UNCHANGED idx
            ELSE IF next = 0
            THEN Return(w, "ServeLogin") /\ UNCHANGED idx
            ELSE /\ idx' = [idx EXCEPT ![w] = next]
                 /\ UNCHANGED << pc, outcome >>
    /\ trail' = [trail EXCEPT ![w] = Append(@, "Authenticate")]
    /\ UNCHANGED << serving, nreq, req, wr >>

\* The handler has returned: the request and its context are gone.
Finish(w) ==
    /\ pc[w] = "done"
    /\ pc' = [pc EXCEPT ![w] = "idle"]
    /\ req' = [req EXCEPT ![w] = NoRequest]
    /\ opts' = [opts EXCEPT ![w] = NewOpts(Nil)]
    /\ idx' = [idx EXCEPT ![w] = 0]
    /\ calls' = [calls EXCEPT ![w] = <<>>]
    /\ wr' = [wr EXCEPT ![w] = <<>>]
    /\ trail' = [trail EXCEPT ![w] = <<>>]
    /\ outcome' = [outcome EXCEPT ![w] = Nil]
    /\ UNCHANGED << serving, nreq, sessionCache >>

Next ==
    \E w \in Workers :
        \/ Authorize(w)
        \/ QueryParams(w)
        \/ RouteStatic(w)
        \/ RouteNotFound(w)
        \/ RouteDelegated(w)
        \/ DelegatedAuthenticate(w)
        \/ RouteLogin(w)
        \/ LoginAuthenticate(w)
        \/ Finish(w)

Spec == Init /\ [][Next]_vars

SpecConc == InitConc /\ [][Next]_vars

(***************************************************************************)
(* Vocabulary of the properties.                                           *)
(***************************************************************************)
\* Worker w is handling a request.
InFlight(w) == pc[w] # "idle"

\* The handler of worker w has just ended.
Ended(w) == pc[w] = "done"

\* The entry points of the response dispatcher.
Renderers ==
    { "ServeLogin", "ServeGeneric", "ServeRegister", "ServeSessionLogoff",
      "ServeSessionLoginRedirect", "ServeStaticAssets", "ServeWhoami",
      "ServeSettings", "ServePortal" }

\* The handler of worker w ended by handing opts[w] to a renderer.
Rendered(w) == Ended(w) /\ outcome[w] \in Renderers

\* A call that returned no error and claims.
Succeeded(c) == ~c.err /\ c.claims

\* Some Authenticate call of worker w's request succeeded.
SomeSucceeded(w) == \E k \in 1..Len(calls[w]) : Succeeded(calls[w][k])

\* The backends invoked for worker w's request, in the order of the calls.
Invoked(w) == [k \in 1..Len(calls[w]) |-> calls[w][k].backend]

\* The positions of the backends of a realm, in configuration order.
RECURSIVE RealmBackends(_, _)
RealmBackends(realm, i) ==
    IF i > Len(Backends) THEN <<>>
    ELSE (IF Backends[i].realm = realm THEN <<i>> ELSE <<>>)
             \o RealmBackends(realm, i + 1)

\* The request of worker w is on a delegated-backend path.
OnDelegatedPath(w) ==
    LET p == URLPath(req[w].path) IN
    \E prefix \in {"saml", "x509", "oauth2"} :
        Len(p) >= Len(prefix) /\ SubSeq(p, 1, Len(prefix)) = prefix

\* The request of worker w is on a path of the interactive login flow.
OnLoginPath(w) ==
    LET p == URLPath(req[w].path) IN
    p = "" \/ (Len(p) >= 5 /\ SubSeq(p, 1, 5) = "login")

\* The request of worker w is a GET that carries redirect_url.
GetWithRedirectURL(w) ==
    req[w].method = "GET" /\ req[w].redirect_url # Nil

ExpiredToken(w) == ~req[w].token.authOK /\ req[w].token.err = "[Token is expired]"

(***************************************************************************)
(* C1.  Valid token: authenticated, and no backend invoked.                *)
(***************************************************************************)
\* C1 as stated: for every request whose token validation returns ok=true,
\* whatever its path, the context has authenticated=true and no backend's
\* Authenticate is invoked.
C1_ValidTokenAnyPath ==
    \A w \in Workers :
        (InFlight(w) /\ req[w].token.authOK) =>
            (opts[w].authenticated /\ calls[w] = <<>>)

\* C1 amended: for every request whose token validation returns ok=true and
\* whose path is not under a delegated-backend prefix, the context has
\* authenticated=true (with the token's claims) and no backend's
\* Authenticate is invoked.
C1_ValidTokenOffDelegated ==
    \A w \in Workers :
        (InFlight(w) /\ req[w].token.authOK /\ ~OnDelegatedPath(w)) =>
            /\ opts[w].authenticated
            /\ opts[w].user_claims = req[w].token.claims
            /\ calls[w] = <<>>
            /\ pc[w] \notin {"delegated", "login"}

\* A request with a valid token and submitted to the login path was
\* answered by the login renderer as already authorized.
C1_Witness ==
    \E w \in Workers :
        /\ Rendered(w) /\ req[w].token.authOK /\ req[w].path = "/auth/login"
        /\ req[w].method = "POST"
        /\ outcome[w] = "ServeLogin" /\ opts[w].authorized /\ opts[w].authenticated

(***************************************************************************)
(* C2.  Fail closed on a token validation failure.                         *)
(***************************************************************************)
\* C2: for every request whose token validation returns ok=false, the
\* context (at any point, and so the one handed to a renderer) has
\* authenticated=true only if an Authenticate call of that request returned
\* without error and with claims.
C2_FailClosed ==
    \A w \in Workers :
        (InFlight(w) /\ ~req[w].token.authOK /\ opts[w].authenticated) =>
            SomeSucceeded(w)

\* A request with a malformed token was rendered authenticated, after a
\* backend had accepted its credentials.
C2_Witness ==
    \E w \in Workers :
        /\ Rendered(w) /\ req[w].token.err = "signature is invalid"
        /\ opts[w].authenticated /\ SomeSucceeded(w)

\* A request with a malformed token was rendered anonymous.
C2_WitnessAnonymous ==
    \E w \in Workers :
        /\ Rendered(w) /\ req[w].token.err = "signature is invalid"
        /\ ~opts[w].authenticated /\ calls[w] # <<>>

(***************************************************************************)
(* C3.  Expired token: the login redirect, at once.                        *)
(***************************************************************************)
\* C3: for every request whose token validation fails with the expiration
\* error, the outcome is ServeSessionLoginRedirect, decided before the
\* query-parameter pre-processing and the routing switch (nothing was
\* written to the response, no section after Authorize was entered), and
\* no backend's Authenticate is invoked.
C3_ExpiredRedirect ==
    \A w \in Workers :
        (InFlight(w) /\ ExpiredToken(w)) =>
            /\ Ended(w)
            /\ outcome[w] = "ServeSessionLoginRedirect"
            /\ trail[w] = <<"Authorize">>
            /\ wr[w] = <<>>
            /\ calls[w] = <<>>
            /\ req[w].credentials = Unparsed
            /\ ~opts[w].authenticated

\* A GET with redirect_url to a delegated-backend path and with an expired
\* token ended in the login redirect.
C3_Witness ==
    \E w \in Workers :
        /\ Ended(w) /\ ExpiredToken(w)
        /\ req[w].path = "/auth/oauth2/google" /\ GetWithRedirectURL(w)
        /\ outcome[w] = "ServeSessionLoginRedirect"

(***************************************************************************)
(* C4.  Login loop over the backends of the credentials' realm.            *)
(***************************************************************************)
\* The request of worker w went through the login loop with credentials
\* of a realm that two or more backends share, and reached the renderer.
SharedRealmLogin(w) ==
    /\ Rendered(w) /\ outcome[w] = "ServeLogin"
    /\ OnLoginPath(w)
    /\ req[w].credentials.found
    /\ Len(RealmBackends(req[w].credentials.realm, 1)) >= 2

LastCall(w) == calls[w][Len(calls[w])]

\* s is a prefix of t.
IsPrefix(s, t) == Len(s) <= Len(t) /\ SubSeq(t, 1, Len(s)) = s

\* C4 as stated: with two or more backends of the credentials' realm,
\* Authenticate is invoked on every one of them in configuration order and
\* authenticated, as handed to the login renderer, is the outcome of the
\* last of them: true if it succeeded, false if it failed.
C4_LastBackendDecides ==
    \A w \in Workers :
        SharedRealmLogin(w) =>
            /\ Invoked(w) = RealmBackends(req[w].credentials.realm, 1)
            /\ opts[w].authenticated = Succeeded(LastCall(w))

\* C4 amended: the backends of the credentials' realm are invoked in
\* configuration order, every one of them once the login renderer is
\* reached; authenticated, as handed to the login renderer, is true exactly
\* when at least one of them succeeded (a later failure does not reset it),
\* and status_code is that of the last one processed.
C4_AnyBackendDecides ==
    \A w \in Workers :
        /\ (InFlight(w) /\ OnLoginPath(w) /\ req[w].credentials.found) =>
               IsPrefix(Invoked(w), RealmBackends(req[w].credentials.realm, 1))
        /\ SharedRealmLogin(w) =>
               /\ Invoked(w) = RealmBackends(req[w].credentials.realm, 1)
               /\ opts[w].authenticated = SomeSucceeded(w)
               /\ opts[w].status_code =
                      (IF Succeeded(LastCall(w)) THEN 200 ELSE LastCall(w).code)
               /\ opts[w].auth_backend_found /\ opts[w].auth_credentials_found

\* The first backend of the shared realm accepted the credentials, the
\* last one rejected them, and the login renderer got authenticated=true
\* with the status code of the rejection.
C4_Witness ==
    \E w \in Workers :
        /\ SharedRealmLogin(w)
        /\ req[w].credentials.realm = "corp"
        /\ Invoked(w) = <<1, 2>>
        /\ Succeeded(calls[w][1]) /\ calls[w][2].err
        /\ opts[w].authenticated /\ opts[w].status_code = 401

(***************************************************************************)
(* C5.  Round trip: a successful authentication and its cache entry.       *)
(***************************************************************************)
\* The session id under which the claims of call c of a request with
\* correlation identifier reqID are to be found.
KeyOf(c, reqID) == IF c.id = "" THEN reqID ELSE c.id

\* The last successful call of worker w's request.
LastSuccess(w) ==
    calls[w][CHOOSE k \in 1..Len(calls[w]) :
                /\ Succeeded(calls[w][k])
                /\ \A j \in (k + 1)..Len(calls[w]) : ~Succeeded(calls[w][j])]

\* The session cache holds, under session id, an entry of backend b.
HoldsEntry(cache, id, b) ==
    \E e \in cache :
        /\ e.id = id
        /\ e.backend_name = Backends[b].name
        /\ e.backend_realm = Backends[b].realm
        /\ e.backend_method = Backends[b].method

\* The step adds a successful Authenticate call to worker w's request.
NewSuccess(w) ==
    /\ Len(calls'[w]) = Len(calls[w]) + 1
    /\ Succeeded(calls'[w][Len(calls'[w])])

\* C5 as stated: when a request ends with a successful backend
\* authentication, the session cache holds an entry under user_claims.ID
\* with the name, realm and method of the backend that produced the claims.
C5_RoundTripAtEnd ==
    \A w \in Workers :
        (Ended(w) /\ outcome[w] = "ServeLogin" /\ SomeSucceeded(w)) =>
            HoldsEntry(sessionCache, opts[w].user_claims.ID, LastSuccess(w).backend)

\* C5 amended: at the moment a successful backend authentication places
\* its claims in the request context, the session cache holds an entry
\* under user_claims.ID with those claims and the name, realm and method of
\* that backend; when the request ends, user_claims are the claims of its
\* last successful backend.  (A concurrent request that authenticates the
\* same identifier may replace the entry before the request ends.)
C5_RoundTripAtWrite ==
    /\ [](\A w \in Workers :
            (Ended(w) /\ outcome[w] = "ServeLogin" /\ SomeSucceeded(w)) =>
                /\ opts[w].authenticated
                /\ opts[w].user_claims.ID = KeyOf(LastSuccess(w), opts[w].request_id))
    /\ [][\A w \in Workers :
            NewSuccess(w) =>
                LET c == calls'[w][Len(calls'[w])] IN
                /\ opts'[w].authenticated
                /\ opts'[w].user_claims.ID = KeyOf(c, opts[w].request_id)
                /\ HoldsEntry(sessionCache', opts'[w].user_claims.ID, c.backend)
                /\ \E e \in sessionCache' :
                       e.id = opts'[w].user_claims.ID /\ e.claims = opts'[w].user_claims
         ]_vars

\* Two concurrent logins: the second backend of the realm has just
\* authenticated the subject of a request whose first backend had refused,
\* and the entry is in the cache under the claims' identifier.
C5_Witness ==
    \E w \in Workers :
        /\ Ended(w) /\ outcome[w] = "ServeLogin"
        /\ Len(calls[w]) = 2 /\ calls[w][1].err /\ Succeeded(calls[w][2])
        /\ \E v \in Workers \ {w} : pc[v] = "login"
        /\ HoldsEntry(sessionCache, opts[w].user_claims.ID, 2)
        /\ opts[w].user_claims.ID = "bob-id"

(***************************************************************************)
(* C6.  Idempotence of session creation.                                   *)
(***************************************************************************)
\* The session cache holds at most one entry per session id.
UniqueIDs ==
    \A e1, e2 \in sessionCache : e1.id = e2.id => e1 = e2

\* The entries of the cache under a session id.
EntriesOf(cache, id) == {e \in cache : e.id = id}

\* The step stores the entry of worker w's new successful call under id,
\* replaces what was there and leaves the other entries alone.
Replaces(w, id) ==
    LET c == calls'[w][Len(calls'[w])] IN
    /\ Cardinality(EntriesOf(sessionCache', id)) = 1
    /\ HoldsEntry(sessionCache', id, c.backend)
    /\ sessionCache' \ EntriesOf(sessionCache', id)
           = sessionCache \ EntriesOf(sessionCache, id)

\* C6 as stated: at most one entry per claim identifier, a later
\* successful authentication replaces the earlier entry, and a successful
\* login by a subject that already has an entry does not increase the
\* number of entries.
C6_IdempotentPerSubject ==
    /\ []UniqueIDs
    /\ [][\A w \in Workers :
            NewSuccess(w) =>
                /\ Replaces(w, opts'[w].user_claims.ID)
                /\ (\E e \in sessionCache :
                        e.claims.Subject = opts'[w].user_claims.Subject)
                       => Cardinality(sessionCache') <= Cardinality(sessionCache)
         ]_vars

\* C6 amended: at most one entry per claim identifier; a successful
\* authentication stores its entry under the identifier the backend
\* returned (under the correlation identifier when it returned none),
\* replacing an earlier entry of that identifier; a successful
\* authentication whose backend returns a non-empty identifier that is
\* already in the cache does not increase the number of entries.  (A
\* subject whose backend returns no identifier gets a new entry with every
\* login.)
C6_IdempotentPerID ==
    /\ []UniqueIDs
    /\ [][\A w \in Workers :
            NewSuccess(w) =>
                LET c == calls'[w][Len(calls'[w])] IN
                /\ Replaces(w, KeyOf(c, opts[w].request_id))
                /\ (c.id # "" /\ EntriesOf(sessionCache, c.id) # {})
                       => Cardinality(sessionCache') = Cardinality(sessionCache)
                /\ Cardinality(sessionCache') <= Cardinality(sessionCache) + 1
         ]_vars

\* Two requests have authenticated the same identifier through different
\* backends, concurrently: the cache holds one entry, the later one.
C6_Witness ==
    \E w, v \in Workers :
        /\ w # v
        /\ InFlight(w) /\ SomeSucceeded(w) /\ LastSuccess(w).id = "bob-id"
        /\ Ended(v) /\ SomeSucceeded(v) /\ LastSuccess(v).id = "bob-id"
        /\ LastSuccess(v).backend # LastSuccess(w).backend
        /\ Cardinality(sessionCache) = 1
        /\ HoldsEntry(sessionCache, "bob-id", LastSuccess(v).backend)

(***************************************************************************)
(* C7.  Session ids are never empty.                                       *)
(***************************************************************************)
\* C7: every session id of the cache is non-empty; the entry of a backend
\* that returned claims with an empty ID is under the correlation
\* identifier of the request, the entry of a backend that returned a
\* non-empty ID is under that ID unchanged, on the delegated-backend path
\* and on the login path alike.
C7_NonEmptySessionID ==
    /\ \A e \in sessionCache : e.id # "" /\ e.id # Nil /\ e.claims.ID = e.id
    /\ \A w \in Workers :
           /\ InFlight(w) => opts[w].request_id \notin {"", Nil}
           /\ \A k \in 1..Len(calls[w]) :
                  Succeeded(calls[w][k]) =>
                      EntriesOf(sessionCache,
                                IF calls[w][k].id = "" THEN opts[w].request_id
                                ELSE calls[w][k].id) # {}

\* The backend for (oauth2, google) returned claims with an empty ID and
\* the entry is in the cache under the correlation identifier of the
\* request.
C7_Witness ==
    \E w \in Workers :
        /\ Ended(w) /\ req[w].path = "/auth/oauth2/google"
        /\ Len(calls[w]) = 1 /\ Succeeded(calls[w][1]) /\ calls[w][1].id = ""
        /\ HoldsEntry(sessionCache, opts[w].request_id, calls[w][1].backend)
        /\ \A e \in sessionCache : e.id # ""

(***************************************************************************)
(* C8.  GET with redirect_url off the delegated-backend paths.             *)
(***************************************************************************)
\* The answer of the query-parameter pre-processing to worker w's request:
\* the redirect cookie with the given value, then the 302 to the auth root.
CookieThen302(w) ==
    << "Set-Cookie: AUTH_PORTAL_REDIRECT_URL=" \o req[w].redirect_url \o ";"
           \o CookieAttributes,
       "Location: /auth",
       "WriteHeader 302" >>

\* C8 as stated: every GET with redirect_url whose path is not under a
\* delegated-backend prefix ends in the 302 to the auth root, whatever the
\* token validation result, with the redirect cookie set to the given
\* value before the 302; no renderer and no backend is reached.
C8_RedirectAnyToken ==
    \A w \in Workers :
        (Ended(w) /\ GetWithRedirectURL(w) /\ ~OnDelegatedPath(w)) =>
            /\ outcome[w] = "Redirect302"
            /\ wr[w] = CookieThen302(w)
            /\ calls[w] = <<>>

\* C8 amended: the same, for every token validation result but the
\* expired token, which is answered by the login redirect before the
\* query parameters are looked at.
C8_RedirectUnlessExpired ==
    \A w \in Workers :
        (InFlight(w) /\ GetWithRedirectURL(w) /\ ~OnDelegatedPath(w)) =>
            /\ pc[w] \in {"query", "done"}
            /\ calls[w] = <<>>
            /\ (Ended(w) /\ ~ExpiredToken(w)) =>
                   /\ outcome[w] = "Redirect302"
                   /\ wr[w] = CookieThen302(w)
                   /\ trail[w] = <<"Authorize", "QueryParams">>
            /\ (Ended(w) /\ ExpiredToken(w)) =>
                   /\ outcome[w] = "ServeSessionLoginRedirect"
                   /\ wr[w] = <<>>

\* A GET /auth/whoami?redirect_url=/app with a valid token was answered 302
\* with the cookie set.
C8_Witness ==
    \E w \in Workers :
        /\ Ended(w) /\ GetWithRedirectURL(w) /\ req[w].path = "/auth/whoami"
        /\ req[w].token.authOK
        /\ outcome[w] = "Redirect302"
        /\ wr[w] = CookieThen302(w)

(***************************************************************************)
(* C9.  No token, no credentials.                                          *)
(***************************************************************************)
\* The request of worker w presents no token.
NoToken(w) == ~req[w].token.authOK /\ req[w].token.err = "no token found"

\* The request of worker w submits no credentials: none were found when
\* they were parsed, or they were never looked at (the request then stands
\* for any body, one without credentials included).
NoCredentials(w) == ~req[w].credentials.found /\ ~req[w].credentials.err

\* C9 as stated: every request that presents no token and submits no
\* credentials ends in the login renderer with authenticated=false, and no
\* backend is contacted.
C9_AnonymousAnyPath ==
    \A w \in Workers :
        (InFlight(w) /\ NoToken(w) /\ NoCredentials(w)) =>
            /\ calls[w] = <<>>
            /\ Ended(w) => (outcome[w] = "ServeLogin" /\ ~opts[w].authenticated)

\* C9 amended: every request to the login flow (path "login..." or the
\* empty remainder, not a GET carrying redirect_url) that presents no token
\* and submits no credentials ends in the login renderer with flow login
\* and authenticated=false, and no backend is contacted.
C9_AnonymousLogin ==
    \A w \in Workers :
        (InFlight(w) /\ NoToken(w) /\ NoCredentials(w)
            /\ OnLoginPath(w) /\ ~GetWithRedirectURL(w)) =>
            /\ calls[w] = <<>>
            /\ pc[w] # "login"
            /\ ~opts[w].authenticated
            /\ Ended(w) =>
                   /\ outcome[w] = "ServeLogin"
                   /\ opts[w].flow = "login"
                   /\ opts[w].user_claims = NoClaims
                   /\ ~opts[w].auth_credentials_found
                   /\ ~opts[w].auth_backend_found
                   /\ opts[w].status_code = 0

\* A bare GET /auth without token and credentials was answered by the
\* login renderer, unauthenticated.
C9_Witness ==
    \E w \in Workers :
        /\ Ended(w) /\ NoToken(w) /\ req[w].path = "/auth" /\ req[w].method = "GET"
        /\ req[w].redirect_url = Nil
        /\ req[w].credentials = [err |-> FALSE, found |-> FALSE, realm |-> Nil]
        /\ outcome[w] = "ServeLogin" /\ ~opts[w].authenticated /\ calls[w] = <<>>

(***************************************************************************)
(* C10.  Delegated-backend path without method and realm.                  *)
(***************************************************************************)
\* The path of worker w's request, after the mount path, is a
\* delegated-backend path of fewer than two segments.
ShortDelegatedPath(w) ==
    OnDelegatedPath(w) /\ Len(Split(URLPath(req[w].path))) < 2

\* C10 as stated: every request on a delegated-backend path of fewer than
\* two segments ends in the generic renderer with status_code 400, flow
\* malformed_backend and authenticated=false, and no backend's Authenticate
\* is invoked.
C10_MalformedAnyToken ==
    \A w \in Workers :
        (Ended(w) /\ ShortDelegatedPath(w)) =>
            /\ outcome[w] = "ServeGeneric"
            /\ opts[w].status_code = 400
            /\ opts[w].flow = "malformed_backend"
            /\ ~opts[w].authenticated
            /\ calls[w] = <<>>

\* C10 amended: the same for every request whose token is not expired; a
\* request with an expired token ends in the login redirect before its
\* path is looked at.  No backend's Authenticate is invoked either way.
C10_MalformedUnlessExpired ==
    \A w \in Workers :
        (InFlight(w) /\ ShortDelegatedPath(w)) =>
            /\ calls[w] = <<>>
            /\ pc[w] # "delegated"
            /\ (Ended(w) /\ ~ExpiredToken(w)) =>
                   /\ outcome[w] = "ServeGeneric"
                   /\ opts[w].status_code = 400
                   /\ opts[w].flow = "malformed_backend"
                   /\ ~opts[w].authenticated
            /\ (Ended(w) /\ ExpiredToken(w)) =>
                   outcome[w] = "ServeSessionLoginRedirect"

\* A GET /auth/saml?redirect_url=/app with a valid token was answered 400
\* malformed_backend, unauthenticated, after the redirect cookie was set.
C10_Witness ==
    \E w \in Workers :
        /\ Ended(w) /\ req[w].path = "/auth/saml" /\ GetWithRedirectURL(w)
        /\ req[w].token.authOK
        /\ outcome[w] = "ServeGeneric" /\ opts[w].status_code = 400
        /\ opts[w].flow = "malformed_backend" /\ ~opts[w].authenticated
        /\ Len(wr[w]) = 1

(***************************************************************************)
(* C11.  Delegated-backend path that names no configured backend.          *)
(***************************************************************************)
\* The step is one of worker w's handler (every section of ServeHTTP leaves
\* its mark on the trail, and the handler's return clears it).
StepOf(w) == trail'[w] # trail[w]

\* The method and the realm the path of worker w's request asks for.
RequestedPair(w) ==
    LET parts == Split(URLPath(req[w].path)) IN
    [method |-> parts[1], realm |-> parts[2]]

\* The path of worker w's request is a delegated-backend path that names a
\* method and a realm.
NamesPair(w) ==
    OnDelegatedPath(w) /\ Len(Split(URLPath(req[w].path))) >= 2

\* The positions of the backends with the pair worker w's request asks for.
PairBackends(w) ==
    LET pair == RequestedPair(w) IN
    { i \in 1..Len(Backends) :
        Backends[i].method = pair.method /\ Backends[i].realm = pair.realm }

\* Worker w's request asks for a pair no configured backend has.
NoBackendFor(w) == NamesPair(w) /\ PairBackends(w) = {}

\* C11 as stated: every request on a delegated-backend path whose (method,
\* realm) is that of no configured backend ends in the generic renderer
\* with status_code 400, flow backend_not_found and authenticated=false,
\* and no backend's Authenticate is invoked.
C11_NotFoundAnyToken ==
    \A w \in Workers :
        (Ended(w) /\ NoBackendFor(w)) =>
            /\ outcome[w] = "ServeGeneric"
            /\ opts[w].status_code = 400
            /\ opts[w].flow = "backend_not_found"
            /\ ~opts[w].authenticated
            /\ calls[w] = <<>>

\* C11 amended: the same for every request whose token is not expired
\* (with an expired token the request ends in the login redirect before its
\* path is looked at); either way no backend's Authenticate is invoked and
\* no step of the request, from its arrival to the handler's return,
\* changes the session cache.
C11_NotFoundUnlessExpired ==
    /\ [](\A w \in Workers :
            (InFlight(w) /\ NoBackendFor(w)) =>
                /\ calls[w] = <<>>
                /\ pc[w] # "delegated"
                /\ (Ended(w) /\ ~ExpiredToken(w)) =>
                       /\ outcome[w] = "ServeGeneric"
                       /\ opts[w].status_code = 400
                       /\ opts[w].flow = "backend_not_found"
                       /\ ~opts[w].authenticated
                /\ (Ended(w) /\ ExpiredToken(w)) =>
                       outcome[w] = "ServeSessionLoginRedirect")
    /\ [][\A w \in Workers :
            (StepOf(w) /\ (NoBackendFor(w) \/ pc[w] = "idle")) =>
                sessionCache' = sessionCache
         ]_vars

\* A request with a valid token for (saml, corp), a realm that is
\* configured but not for that method, was answered 400 backend_not_found,
\* unauthenticated, and the session of an earlier request is still in the
\* cache.
C11_Witness ==
    \E w \in Workers :
        /\ Ended(w) /\ req[w].path = "/auth/saml/corp" /\ req[w].token.authOK
        /\ outcome[w] = "ServeGeneric" /\ opts[w].status_code = 400
        /\ opts[w].flow = "backend_not_found" /\ ~opts[w].authenticated
        /\ calls[w] = <<>> /\ sessionCache # {}

(***************************************************************************)
(* C12.  Delegated-backend flow: a result without redirect_url and claims. *)
(***************************************************************************)
\* The matched backend of worker w's delegated-backend request returned no
\* error and a result with neither redirect_url nor claims.
EmptyHandedDelegated(w) ==
    /\ OnDelegatedPath(w)
    /\ Len(calls[w]) = 1
    /\ ~calls[w][1].err /\ ~calls[w][1].redirect /\ ~calls[w][1].claims

\* C12: such a request is handled as an authentication error is: the
\* generic renderer is called with flow auth_failed, authenticated=false
\* and the status code of the backend's result.
C12_NoClaimsIsAuthError ==
    \A w \in Workers :
        (Ended(w) /\ EmptyHandedDelegated(w)) =>
            /\ outcome[w] = "ServeGeneric"
            /\ opts[w].flow = "auth_failed"
            /\ ~opts[w].authenticated
            /\ opts[w].status_code = calls[w][1].code

\* The backend for (oauth2, google) answered code 401 without error and
\* without claims, and the handler aborted with the context already marked
\* auth_failed / 401: no renderer was called.
C12_Witness ==
    \E w \in Workers :
        /\ Ended(w) /\ EmptyHandedDelegated(w)
        /\ req[w].path = "/auth/oauth2/google"
        /\ calls[w][1].hasCode /\ calls[w][1].code = 401
        /\ opts[w].flow = "auth_failed" /\ opts[w].status_code = 401
        /\ outcome[w] = "panic"

(***************************************************************************)
(* C13.  Every request ends in one of the defined outcomes.                *)
(***************************************************************************)
\* The ways ServeHTTP returns: a renderer's result, or one of its own two
\* redirects.
DefinedOutcomes == Renderers \cup {"Redirect302", "Redirect308"}

\* C13: the handler of every request ends in one of the defined outcomes,
\* whatever the token validation result and the backends' results; it
\* never ends in an abnormal abort.
C13_NoAbnormalAbort ==
    \A w \in Workers :
        Ended(w) => outcome[w] \in DefinedOutcomes

\* A login whose backend returned an error and no code aborted at the
\* status code's type assertion.
C13_Witness ==
    \E w \in Workers :
        /\ Ended(w) /\ req[w].path = "/auth/login"
        /\ Len(calls[w]) = 1 /\ calls[w][1].err /\ ~calls[w][1].hasCode
        /\ outcome[w] = "panic"

(***************************************************************************)
(* C14.  What a backend's error leaves in the context.                     *)
(***************************************************************************)
\* Some Authenticate call of worker w's request returned an error.
SomeFailed(w) == \E k \in 1..Len(calls[w]) : calls[w][k].err

\* The step adds an Authenticate call that returned an error to worker w's
\* request.
NewFailure(w) ==
    /\ Len(calls'[w]) = Len(calls[w]) + 1
    /\ calls'[w][Len(calls'[w])].err

\* C14 as stated: whenever an Authenticate call of a request returned an
\* error, on the delegated-backend path or in the login loop, the context
\* handed to the renderer has flow auth_failed and the status code that
\* backend supplied.
C14_ErrorIsAuthFailed ==
    \A w \in Workers :
        Rendered(w) =>
            \A k \in 1..Len(calls[w]) :
                calls[w][k].err =>
                    /\ opts[w].flow = "auth_failed"
                    /\ opts[w].status_code = calls[w][k].code

\* C14 amended: an error with a status code puts that code and the message
\* "Authentication failed" in the context at once, in both flows; an error
\* without a status code aborts the handler.  On the delegated-backend path
\* the error ends the request in the generic renderer with flow auth_failed,
\* authenticated=false and that code.  In the login loop the flow stays
\* login and the loop goes on: the login renderer gets the code of the last
\* backend processed if that one failed, 200 if it succeeded.
C14_ErrorByFlow ==
    /\ [][\A w \in Workers :
            NewFailure(w) =>
                LET c == calls'[w][Len(calls'[w])] IN
                IF c.hasCode
                THEN /\ opts'[w].status_code = c.code
                     /\ opts'[w].message = "Authentication failed"
                     /\ outcome'[w] # "panic"
                ELSE /\ pc'[w] = "done" /\ outcome'[w] = "panic"
                     /\ opts'[w].status_code = opts[w].status_code
         ]_vars
    /\ [](\A w \in Workers :
            (Ended(w) /\ SomeFailed(w) /\ OnDelegatedPath(w) /\ LastCall(w).hasCode) =>
                /\ outcome[w] = "ServeGeneric"
                /\ Len(calls[w]) = 1
                /\ opts[w].flow = "auth_failed"
                /\ ~opts[w].authenticated
                /\ opts[w].status_code = calls[w][1].code)
    /\ [](\A w \in Workers :
            (Rendered(w) /\ SomeFailed(w) /\ OnLoginPath(w)) =>
                /\ outcome[w] = "ServeLogin"
                /\ opts[w].flow = "login"
                /\ opts[w].message = "Authentication failed"
                /\ opts[w].status_code =
                       (IF LastCall(w).err THEN LastCall(w).code ELSE 200))

\* Both backends of realm corp rejected the credentials of a login with
\* code 401: the login renderer got flow login and status_code 401.
C14_Witness ==
    \E w \in Workers :
        /\ Rendered(w) /\ req[w].path = "/auth/login"
        /\ Invoked(w) = <<1, 2>> /\ calls[w][1].err /\ calls[w][2].err
        /\ outcome[w] = "ServeLogin" /\ opts[w].flow = "login"
        /\ opts[w].status_code = 401 /\ ~opts[w].authenticated

(***************************************************************************)
(* C15.  Delegated-backend flow: one call, on the first matching backend.  *)
(***************************************************************************)
\* C15: on a delegated-backend path at most one Authenticate call is made
\* per request; it is made on the first backend, in configuration order,
\* with the requested method and realm, and the request ends with that
\* call whatever it returns: no later backend is tried, one with the same
\* (method, realm) included.
C15_FirstMatchOnly ==
    \A w \in Workers :
        (InFlight(w) /\ OnDelegatedPath(w)) =>
            /\ Len(calls[w]) <= 1
            /\ calls[w] # <<>> =>
                   /\ Ended(w)
                   /\ NamesPair(w)
                   /\ LET matching == PairBackends(w) IN
                      /\ calls[w][1].backend \in matching
                      /\ \A j \in matching : calls[w][1].backend <= j
            /\ (Ended(w) /\ calls[w] = <<>> /\ ~ExpiredToken(w)) =>
                   (NamesPair(w) => PairBackends(w) = {})

\* (oauth2, google) is configured twice: the first of the two backends
\* rejected the request and the request ended in the failure page, the
\* second one not having been asked.
C15_Witness ==
    \E w \in Workers :
        /\ Ended(w) /\ req[w].path = "/auth/oauth2/google"
        /\ Cardinality(PairBackends(w)) = 2
        /\ Invoked(w) = <<3>> /\ calls[w][1].err
        /\ outcome[w] = "ServeGeneric" /\ opts[w].flow = "auth_failed"

(***************************************************************************)
(* C16.  Realm isolation in the login loop.                                *)
(***************************************************************************)
\* The credentials of worker w's request were parsed and name a realm.
ParsedCredentials(w) == req[w].credentials.found /\ OnLoginPath(w)

\* C16: for an unauthenticated request with parsed credentials of realm R,
\* by the end of the request Authenticate has been invoked exactly once on
\* each configured backend of realm R, in configuration order, and on no
\* other backend; an entry the request writes to the session cache carries
\* backend_realm = R.
C16_RealmIsolation ==
    \A w \in Workers :
        (InFlight(w) /\ ParsedCredentials(w)) =>
            /\ \A k \in 1..Len(calls[w]) :
                   Backends[calls[w][k].backend].realm = req[w].credentials.realm
            /\ Ended(w) => Invoked(w) = RealmBackends(req[w].credentials.realm, 1)
            /\ \A k \in 1..Len(calls[w]) :
                   Succeeded(calls[w][k]) =>
                       \A e \in EntriesOf(sessionCache,
                                          KeyOf(calls[w][k], opts[w].request_id)) :
                           e.backend_realm = req[w].credentials.realm

\* Credentials of realm corp: the first backend of the realm returned an
\* error and no code, the handler aborted and the second backend of the
\* realm was never asked.
C16_Witness ==
    \E w \in Workers :
        /\ Ended(w) /\ ParsedCredentials(w) /\ req[w].credentials.realm = "corp"
        /\ RealmBackends("corp", 1) = <<1, 2>>
        /\ Invoked(w) = <<1>> /\ calls[w][1].err /\ ~calls[w][1].hasCode
        /\ outcome[w] = "panic"

(***************************************************************************)
(* C17.  No retry; what a backend's error means for the request.           *)
(***************************************************************************)
\* No backend was invoked twice for worker w's request.
NoRetry(w) ==
    \A j, k \in 1..Len(calls[w]) :
        calls[w][j].backend = calls[w][k].backend => j = k

\* C17 as stated: within one request each backend's Authenticate is
\* invoked at most once, and once an Authenticate call has returned an
\* error no further call is made in that request and the request does not
\* end authenticated.
C17_FailureIsTerminal ==
    \A w \in Workers :
        /\ NoRetry(w)
        /\ \A k \in 1..Len(calls[w]) : calls[w][k].err => k = Len(calls[w])
        /\ (Ended(w) /\ SomeFailed(w)) => ~opts[w].authenticated

\* C17 amended: within one request each backend's Authenticate is invoked
\* at most once.  On the delegated-backend path an error is terminal: it
\* is the request's only call and the request ends unauthenticated.  In
\* the login loop an error is not terminal: the remaining backends of the
\* realm are still invoked, and the request reaches the login renderer
\* authenticated exactly when some backend of the realm succeeded.
C17_FailureByFlow ==
    \A w \in Workers :
        /\ NoRetry(w)
        /\ (InFlight(w) /\ SomeFailed(w) /\ OnDelegatedPath(w)) =>
               /\ Len(calls[w]) = 1
               /\ Ended(w)
               /\ ~opts[w].authenticated
               /\ outcome[w] \in {"ServeGeneric", "panic"}
        /\ (Rendered(w) /\ ParsedCredentials(w)) =>
               /\ Invoked(w) = RealmBackends(req[w].credentials.realm, 1)
               /\ opts[w].authenticated = SomeSucceeded(w)

\* The first backend of realm corp rejected the credentials of a login,
\* the second one was invoked all the same and accepted them: the request
\* ended authenticated.
C17_Witness ==
    \E w \in Workers :
        /\ Rendered(w) /\ ParsedCredentials(w)
        /\ Invoked(w) = <<1, 2>> /\ calls[w][1].err /\ Succeeded(calls[w][2])
        /\ opts[w].authenticated /\ opts[w].status_code = 200

(***************************************************************************)
(* C18.  Credentials of a realm no backend has.                            *)
(***************************************************************************)
\* The login flow parsed credentials from worker w's request and no
\* configured backend has their realm.
UnmatchedRealm(w) ==
    /\ ParsedCredentials(w)
    /\ \A i \in 1..Len(Backends) : Backends[i].realm # req[w].credentials.realm

QuietOutcomes ==
    Renderers \cup {"Redirect302", "Redirect308"}

\* C19: a step changes the session cache only if it is a backend's
\* successful authentication (an Authenticate call that returned no error
\* and claims); every other step of a request leaves the cache exactly as
\* it was, so a request none of whose backends succeeded leaves it as it
\* was before the request, however the request ends.
C19_CacheFrame ==
    /\ [][sessionCache' # sessionCache =>
             \E w \in Workers : StepOf(w) /\ NewSuccess(w)]_vars
    /\ [][\A w \in Workers :
            (StepOf(w) /\ ~NewSuccess(w)) => sessionCache' = sessionCache]_vars
    /\ [][\A w \in Workers :
            (StepOf(w) /\ outcome'[w] \in QuietOutcomes /\ ~SomeSucceeded(w)')
                => sessionCache' = sessionCache]_vars

\* A delegated-backend request was answered by the 308 redirect to the
\* identity provider, and the cache holds what an earlier request left:
\* one entry, not this request's.
C19_Witness ==
    \E w \in Workers :
        /\ Ended(w) /\ outcome[w] = "Redirect308"
        /\ Len(calls[w]) = 1 /\ calls[w][1].redirect
        /\ Cardinality(sessionCache) = 1
        /\ EntriesOf(sessionCache, opts[w].request_id) = {}

(***************************************************************************)
(* C20.  Request isolation under concurrency.                              *)
(***************************************************************************)
\* The results the backends returned to worker w's request, in order.
Results(w) == [k \in 1..Len(calls[w]) |-> calls[w][k].res]

\* The context a request starts from when it is handled alone: that of its
\* own token validation result.
AloneStart(r, reqID) ==
    [NewOpts(reqID) EXCEPT
        !.authenticated = r.token.authOK,
        !.user_claims = IF r.token.authOK THEN r.token.claims ELSE NoClaims]

\* The login loop of a request handled alone, from the k-th backend of the
\* realm on: bs are the backends of the realm, rs the results they return.
\* "unfinished": a backend of the realm has not answered.
RECURSIVE AloneLogin(_, _, _, _, _)
AloneLogin(o, bs, rs, k, reqID) ==
    IF k > Len(bs) THEN [opts |-> o, outcome |-> "ServeLogin", invoked |-> bs]
    ELSE IF k > Len(rs)
    THEN [opts |-> o, outcome |-> "unfinished", invoked |-> SubSeq(bs, 1, k - 1)]
    ELSE LET out == LoginResult([o EXCEPT !.auth_backend_found = TRUE], rs[k],
                                Backends[bs[k]], reqID, {})
         IN IF out.panic
            THEN [opts |-> out.opts, outcome |-> "panic", invoked |-> SubSeq(bs, 1, k)]
            ELSE AloneLogin(out.opts, bs, rs, k + 1, reqID)

\* ServeHTTP for request r with correlation identifier reqID, handled alone
\* and from an empty session cache, its backends returning rs: the final
\* context, the way the handler ends and the backends invoked.
ServedAlone(r, reqID, rs) ==
    LET start == AloneStart(r, reqID)
        urlPath == URLPath(r.path)
        parts == Split(urlPath)
        case == RouteCase(urlPath)
        end(o, how) == [opts |-> o, outcome |-> how, invoked |-> <<>>]
    IN
    IF ~r.token.authOK /\ r.token.err = "[Token is expired]"
        THEN end(start, "ServeSessionLoginRedirect")
    ELSE IF r.method = "GET" /\ r.redirect_url # Nil /\ ~IsDelegatedPath(urlPath)
        THEN end(start, "Redirect302")
    ELSE IF case \in StaticCases
        THEN end([start EXCEPT !.flow = StaticFlow(case).flow], StaticFlow(case).renderer)
    ELSE IF case = "not_found"
        THEN end([start EXCEPT !.flow = "not_found"], "ServeGeneric")
    ELSE IF case = "delegated" THEN
        IF Len(parts) < 2 THEN end(MalformedBackendOpts(start), "ServeGeneric")
        ELSE LET i == DelegatedMatch(parts[1], parts[2], 1) IN
             IF i = 0 THEN end(BackendNotFoundOpts(start), "ServeGeneric")
             ELSE IF rs = <<>> THEN end([start EXCEPT !.flow = parts[1]], "unfinished")
             ELSE LET out == DelegatedResult([start EXCEPT !.flow = parts[1]], rs[1],
                                             Backends[i], reqID, {})
                  IN [opts |-> out.opts, outcome |-> out.outcome, invoked |-> <<i>>]
    ELSE
        LET login == [start EXCEPT !.flow = "login"]
            cred == r.credentials
        IN
        IF start.authenticated THEN end([login EXCEPT !.authorized = TRUE], "ServeLogin")
        ELSE IF cred = Unparsed THEN end(login, "unfinished")
        ELSE IF cred.err
            THEN end([login EXCEPT !.message = "Authentication failed",
                                   !.status_code = 400], "ServeLogin")
        ELSE IF ~cred.found THEN end(login, "ServeLogin")
        ELSE LET found == [login EXCEPT !.auth_credentials_found = TRUE]
                 bs == RealmBackends(cred.realm, 1)
             IN IF bs = <<>>
                THEN end([found EXCEPT !.status_code = 500], "ServeLogin")
                ELSE AloneLogin(found, bs, rs, 1, reqID)

\* C20: with requests handled concurrently, in any interleaving, the final
\* context of each request (all of it: authenticated, user_claims, flow,
\* status_code, auth_backend_found, auth_credentials_found included), its
\* outcome and the backends it invoked are those of the request handled
\* alone with the same input, token validation result, credentials and
\* backend results; a request is authenticated only by its own token or by
\* a success of one of its own backends; and a step of one request leaves
\* the request, the context, the calls and the position of every other
\* request unchanged.
C20_Isolation ==
    /\ [](\A w \in Workers :
            Ended(w) =>
                LET alone == ServedAlone(req[w], opts[w].request_id, Results(w)) IN
                /\ opts[w] = alone.opts
                /\ outcome[w] = alone.outcome
                /\ Invoked(w) = alone.invoked)
    /\ [](\A w \in Workers :
            (InFlight(w) /\ opts[w].authenticated) =>
                (req[w].token.authOK \/ SomeSucceeded(w)))
    /\ [][\A w, v \in Workers :
            (w # v /\ StepOf(v)) =>
                /\ req'[w] = req[w] /\ opts'[w] = opts[w] /\ calls'[w] = calls[w]
                /\ pc'[w] = pc[w] /\ outcome'[w] = outcome[w] /\ wr'[w] = wr[w]
         ]_vars

\* While a request with a valid token waits for its delegated backend,
\* authenticated, a concurrent login without token whose two backends both
\* refused ended unauthenticated and without claims.
C20_Witness ==
    \E w, v \in Workers :
        /\ w # v
        /\ pc[w] = "delegated" /\ req[w].token.authOK /\ opts[w].authenticated
        /\ Ended(v) /\ req[v].path = "/auth/login" /\ ~req[v].token.authOK
        /\ Len(calls[v]) = 2 /\ calls[v][1].err /\ calls[v][2].err
        /\ outcome[v] = "ServeLogin" /\ ~opts[v].authenticated
        /\ opts[v].user_claims = NoClaims

====
